---- MODULE Spec2Model ----
(***************************************************************************)
(* The Instagram feed page of lhs.news as a state machine.                 *)
(*                                                                         *)
(* The repository holds the page script in several revisions.  The model   *)
(* runs one revision per behaviour, chosen in Init:                        *)
(*   "script1"  src/script.js lines 1-333   (filterPosts, date sort)       *)
(*   "script2"  src/script.js lines 335-689 (exclusive account filter)     *)
(*   "legacy"   src/feed_script.js          (flat array, hidden accounts)  *)
(*   "multi"    src/unnamed/part_001        (hidden groups and accounts)   *)
(*                                                                         *)
(* A JavaScript value that may be null/undefined is a set with no or one   *)
(* element: NULL is {}, Some(v) is {v}.  A JavaScript Set is the sequence  *)
(* of its members in insertion order, without repetition.  A string kept   *)
(* in localStorage that holds JSON is the sequence of its JSON tokens.     *)
(***************************************************************************)
EXTENDS Integers, Sequences, FiniteSets, TLC

VARIABLES
    variant,          \* which revision of the script the page runs
    pc,               \* "start", "fetching", "ready", "error", "uncaught"
    storage,          \* localStorage: [theme, groups, account, filters]
    isDarkMode,       \* setupDarkMode's closure variable
    bodyDark,         \* body.classList contains 'dark-mode'
    response,         \* what fetch('feed_data.json') delivered, NULL before
    ALL_POST_DATA,    \* global: the normalized, sorted posts
    UNIQUE_ACCOUNTS,  \* global: Set of usernames
    UNIQUE_GROUPS,    \* global: Set of {id, name} objects
    hiddenGroups,     \* the Set loadInstagramFeed loaded last (button closures)
    groupButtons,     \* #group-filter-controls: <<[id, name, active]>>
    accountButtons,   \* #account-filter-controls: <<[username, active]>>
    feed,             \* #instagram-feed: [kind, posts]
    savedHidden,      \* argument of the last saveHiddenGroups call, NULL before
    fetches,          \* how many times fetch('feed_data.json') was called
    legacy            \* feed_script.js closures: [postData, hiddenAccounts, buttons];
                      \* part_001 keeps its hiddenAccounts closure Set here
    ,
    embed             \* [present: window.instgrm.Embeds exists,
                      \*  timer: a setTimeout callback of a render pass is pending,
                      \*  process: the call of Embeds.process() made by the latest
                      \*  render pass or timer callback]
    ,
    dateTag           \* [dateString: a post's date_posted, displayDate: what
                      \*  formatDisplayDate made of it, NULL before the call]

vars == <<variant, pc, storage, isDarkMode, bodyDark, response, ALL_POST_DATA,
          UNIQUE_ACCOUNTS, UNIQUE_GROUPS, hiddenGroups, groupButtons,
          accountButtons, feed, savedHidden, fetches, legacy, embed, dateTag>>

\* ----------------------------------------------------------------- bounds
\* Longest post list of a served document (a null entry may follow it).
MaxPosts == 3
\* The most fields, joined by '-', a date_posted string of the date display
\* check is made of.
MaxFields == 4

\* ------------------------------------------------------- optional values
NULL == {}
Some(v) == {v}
Val(o) == CHOOSE v \in o : TRUE

\* JavaScript truthiness of a string-or-null: null and "" are falsy.
Truthy(o) == o # NULL /\ Val(o) # ""
\* The same for a stored JSON text: the empty text is the empty string.
TruthyText(o) == o # NULL /\ Val(o) # <<>>

\* ---------------------------------------------------------------- strings
\* Collation of the characters the model's strings use; localeCompare and the
\* default Array.prototype.sort agree on it.
Alphabet == "-0123456789abcdefghijklmnopqrstuvwxyz"
CharRank(c) == CHOOSE i \in 1..Len(Alphabet) : SubSeq(Alphabet, i, i) = c

RECURSIVE localeCompare(_, _)
localeCompare(a, b) ==
    IF a = b THEN 0
    ELSE IF a = "" THEN -1
    ELSE IF b = "" THEN 1
    ELSE IF SubSeq(a, 1, 1) = SubSeq(b, 1, 1)
         THEN localeCompare(SubSeq(a, 2, Len(a)), SubSeq(b, 2, Len(b)))
    ELSE IF CharRank(SubSeq(a, 1, 1)) < CharRank(SubSeq(b, 1, 1)) THEN -1
    ELSE 1

\* ------------------------------------------------------------ JavaScript Set
Has(set, x) == \E i \in 1..Len(set) : set[i] = x
SetAdd(set, x) == IF Has(set, x) THEN set ELSE Append(set, x)
SetDelete(set, x) == SelectSeq(set, LAMBDA y : y # x)
AsSet(set) == {set[i] : i \in 1..Len(set)}

RECURSIVE NewSet(_)
NewSet(array) ==
    IF array = <<>> THEN <<>>
    ELSE SetAdd(NewSet(SubSeq(array, 1, Len(array) - 1)), array[Len(array)])

\* --------------------------------------------------------------------- JSON
Tok(t, v) == [t |-> t, v |-> v]
LBracket == Tok("[", "")
RBracket == Tok("]", "")
Comma == Tok(",", "")
StrLit(s) == Tok("string", s)

RECURSIVE StringifyItems(_)
StringifyItems(array) ==
    IF array = <<>> THEN <<>>
    ELSE IF Len(array) = 1 THEN <<StrLit(array[1])>>
    ELSE <<StrLit(array[1]), Comma>> \o StringifyItems(Tail(array))

\* JSON.stringify of an array of strings.
JSONstringify(array) == <<LBracket>> \o StringifyItems(array) \o <<RBracket>>

RECURSIVE ParseItems(_)
ParseItems(toks) ==
    IF toks = <<>> THEN [ok |-> TRUE, value |-> <<>>]
    ELSE IF toks[1].t # "string" THEN [ok |-> FALSE, value |-> <<>>]
    ELSE IF Len(toks) = 1 THEN [ok |-> TRUE, value |-> <<toks[1].v>>]
    ELSE IF toks[2] # Comma \/ Len(toks) < 3 THEN [ok |-> FALSE, value |-> <<>>]
    ELSE LET rest == ParseItems(SubSeq(toks, 3, Len(toks)))
         IN [ok |-> rest.ok, value |-> <<toks[1].v>> \o rest.value]

\* JSON.parse of a text: ok = FALSE stands for the SyntaxError it throws, kind
\* is the type of the value.  The arrays of the model's texts hold strings.
JSONparse(text) ==
    IF Len(text) = 1 /\ text[1].t = "string"
    THEN [ok |-> TRUE, kind |-> "string", value |-> text[1].v]
    ELSE IF Len(text) = 1 /\ text[1].t = "number"
    THEN [ok |-> TRUE, kind |-> "number", value |-> text[1].v]
    ELSE IF Len(text) = 1 /\ text[1].t \in {"true", "false"}
    THEN [ok |-> TRUE, kind |-> "boolean", value |-> text[1].t]
    ELSE IF Len(text) = 1 /\ text[1].t = "null"
    THEN [ok |-> TRUE, kind |-> "null", value |-> ""]
    ELSE IF text = <<Tok("{", ""), Tok("}", "")>>
    THEN [ok |-> TRUE, kind |-> "object", value |-> ""]
    ELSE IF Len(text) < 2 \/ text[1] # LBracket \/ text[Len(text)] # RBracket
    THEN [ok |-> FALSE, kind |-> "none", value |-> <<>>]
    ELSE LET items == ParseItems(SubSeq(text, 2, Len(text) - 1))
         IN [ok |-> items.ok, kind |-> "array", value |-> items.value]

\* The characters of a string, which is what iterating it yields.
Chars(str) == [i \in 1..Len(str) |-> SubSeq(str, i, i)]

\* new Set(value) of a parsed value: an array and a string are iterable, null
\* gives the empty Set, a number, a boolean and a plain object are a TypeError.
newSetOf(parsed) ==
    IF parsed.kind = "array" THEN [threw |-> FALSE, set |-> NewSet(parsed.value)]
    ELSE IF parsed.kind = "string"
    THEN [threw |-> FALSE, set |-> NewSet(Chars(parsed.value))]
    ELSE IF parsed.kind = "null" THEN [threw |-> FALSE, set |-> <<>>]
    ELSE [threw |-> TRUE, set |-> <<>>]

\* JSON.parse and new Set in one try block: what leaves it.
parsedSet(text) ==
    LET parsed == JSONparse(text)
    IN IF parsed.ok THEN newSetOf(parsed) ELSE [threw |-> TRUE, set |-> <<>>]

\* --------------------------------------------------------- preference store
\* loadHiddenGroups without its try/catch: the SyntaxError leaves the function.
loadHiddenGroups_uncaught(json) ==
    IF TruthyText(json) THEN parsedSet(Val(json)) ELSE [threw |-> FALSE, set |-> <<>>]

\* script.js:73 loadHiddenGroups.  threw = TRUE would be an exception leaving
\* the function; both JSON.parse and new Set run inside the try block.
loadHiddenGroups(json) ==
    LET made == IF TruthyText(json) THEN parsedSet(Val(json))
                ELSE [threw |-> FALSE, set |-> <<>>]
    IN IF made.threw THEN [threw |-> FALSE, set |-> <<>>] ELSE made

\* script.js:387 loadHiddenGroups of the second revision.
loadHiddenGroupsB(savedFilters) ==
    IF TruthyText(savedFilters) /\ ~parsedSet(Val(savedFilters)).threw
    THEN parsedSet(Val(savedFilters))
    ELSE [threw |-> FALSE, set |-> <<>>]

\* feed_script.js:55 loadFilterPreferences.
loadFilterPreferences(savedFilters) ==
    IF TruthyText(savedFilters) /\ ~parsedSet(Val(savedFilters)).threw
    THEN parsedSet(Val(savedFilters)).set
    ELSE <<>>

\* saveHiddenGroups without Array.from: JSON.stringify of a Set is "{}".
saveHiddenGroups_noArrayFrom(store, set) ==
    [store EXCEPT !.groups = Some(<<Tok("{", ""), Tok("}", "")>>)]

\* script.js:88 and :403 saveHiddenGroups: the storage after the call.
saveHiddenGroups(store, set) == [store EXCEPT !.groups = Some(JSONstringify(set))]

\* feed_script.js:72 saveFilterPreferences.
saveFilterPreferences(store, set) == [store EXCEPT !.filters = Some(JSONstringify(set))]

\* script.js:96 and :458 loadSelectedAccount.
loadSelectedAccount(store) == store.account

\* saveSelectedAccount resetting the hidden groups along with the selection.
saveSelectedAccount_clearsGroups(store, username) ==
    IF Truthy(username) THEN [store EXCEPT !.account = username, !.groups = NULL]
    ELSE [store EXCEPT !.account = NULL, !.groups = NULL]

\* script.js:104 and :466 saveSelectedAccount: a falsy username removes the key.
saveSelectedAccount(store, username) ==
    IF Truthy(username) THEN [store EXCEPT !.account = username]
    ELSE [store EXCEPT !.account = NULL]

\* ------------------------------------------------------------- date display
\* String.prototype.split('-') from position i on, cur being the part begun.
RECURSIVE splitFrom(_, _, _)
splitFrom(str, i, cur) ==
    IF i > Len(str) THEN <<cur>>
    ELSE IF SubSeq(str, i, i) = "-" THEN <<cur>> \o splitFrom(str, i + 1, "")
    ELSE splitFrom(str, i + 1, cur \o SubSeq(str, i, i))

\* script.js:19-27 formatDisplayDate; the destructuring takes the first three
\* parts and leaves a missing one undefined.
formatDisplayDate(dateString) ==
    IF ~Truthy(dateString) \/ Len(Val(dateString)) # 10 THEN "Date N/A"
    ELSE LET parts == splitFrom(Val(dateString), 1, "")
         IN IF Len(parts) >= 3 /\ parts[1] # "" /\ parts[2] # "" /\ parts[3] # ""
            THEN parts[2] \o "/" \o parts[3] \o "/" \o parts[1]
            ELSE "Date N/A"

\* -------------------------------------------------------------------- theme
\* setupDarkMode leaving an absent theme absent.
setupDarkMode_noDefaultWrite(store, dark) ==
    IF store.theme = Some("light")
    THEN [isDarkMode |-> FALSE, bodyDark |-> FALSE, store |-> store]
    ELSE [isDarkMode |-> TRUE, bodyDark |-> TRUE, store |-> store]

\* script.js:34-53 and :346-365 setupDarkMode up to the listener registration.
setupDarkMode(store, dark) ==
    IF store.theme = Some("light")
    THEN [isDarkMode |-> FALSE, bodyDark |-> FALSE, store |-> store]
    ELSE [isDarkMode |-> TRUE, bodyDark |-> TRUE,
          store |-> IF ~Truthy(store.theme)
                    THEN [store EXCEPT !.theme = Some("dark")] ELSE store]

\* feed_script.js:10-22 setupDarkMode of the legacy revision.
setupDarkModeLegacy(store, dark) ==
    LET d == store.theme = Some("dark")
    IN [isDarkMode |-> d, bodyDark |-> IF d THEN TRUE ELSE dark, store |-> store]

\* script.js:330-332: what the DOMContentLoaded listener does to the theme
\* before it calls loadInstagramFeed; only the first revision sets it up there.
listenerTheme(v, store, dark) ==
    IF v = "script1" THEN setupDarkMode(store, dark)
    ELSE [isDarkMode |-> FALSE, bodyDark |-> dark, store |-> store]

\* script.js:626-629 and feed_script.js:210: what loadInstagramFeed(true) does
\* to the theme t before it fetches; the first revision (script.js:267-272)
\* does nothing to it.
loadTheme(v, t) ==
    IF v = "script1" THEN t
    ELSE IF v \in {"script2", "multi"} THEN setupDarkMode(t.store, t.bodyDark)
    ELSE setupDarkModeLegacy(t.store, t.bodyDark)

\* ------------------------------------------------------------------- filter
\* filterPosts with the group test dropped.
filterPosts_noGroupTest(posts, hidden, selectedAccount) ==
    SelectSeq(posts, LAMBDA post :
        ~Truthy(selectedAccount) \/ post.username = Val(selectedAccount))

\* script.js:152 filterPosts.
filterPosts(posts, hidden, selectedAccount) ==
    SelectSeq(posts, LAMBDA post :
        LET groupPass == ~Has(hidden, post.group_id)
            accountPass == ~Truthy(selectedAccount)
                           \/ post.username = Val(selectedAccount)
        IN groupPass /\ accountPass)

\* script.js:532-545 the filter of applyFiltersAndRender (second revision).
visiblePosts(postData, hidden, selectedAccount) ==
    SelectSeq(postData, LAMBDA post :
        IF selectedAccount # NULL
        THEN post.username = Val(selectedAccount)
        ELSE ~Has(hidden, post.group_id))

\* renderInstagramFeed leaving the loading message for an empty list.
renderInstagramFeed_loadingOnEmpty(filteredPosts) ==
    IF Len(filteredPosts) = 0 THEN [kind |-> "loading", posts |-> <<>>]
    ELSE [kind |-> "posts", posts |-> filteredPosts]

\* script.js:168 renderInstagramFeed / :547 the rest of applyFiltersAndRender:
\* the content of the feed container.
renderInstagramFeed(filteredPosts) ==
    IF Len(filteredPosts) = 0 THEN [kind |-> "nomatch", posts |-> <<>>]
    ELSE [kind |-> "posts", posts |-> filteredPosts]

\* script.js:255 and :527 applyFiltersAndRender.
applyFiltersAndRender(v, posts, hidden, selectedAccount) ==
    IF v = "script1"
    THEN renderInstagramFeed(filterPosts(posts, hidden, selectedAccount))
    ELSE renderInstagramFeed(visiblePosts(posts, hidden, selectedAccount))

\* script.js:200-202 the end of renderInstagramFeed; script.js:547-552 and
\* :604-610 (feed_script.js:140-146, :196-201; part_001:201-206, :259-264)
\* the two ends of applyFiltersAndRender, after the container f was filled.
\* The callbacks that successive passes schedule are kept as one.
embedsAfterRender(v, e, f) ==
    IF f.kind = "posts"
    THEN IF v = "script1"
         THEN [e EXCEPT !.process = IF e.present THEN "inPass" ELSE "none"]
         ELSE [e EXCEPT !.timer = TRUE, !.process = "none"]
    ELSE IF f.kind = "nomatch"
    THEN [e EXCEPT !.process = IF v # "script1" /\ e.present
                               THEN "inEmptyPass" ELSE "none"]
    ELSE e

\* script.js:605-610 the callback of setTimeout.
timerCallback(e) ==
    [e EXCEPT !.timer = FALSE, !.process = IF e.present THEN "afterDelay" ELSE "none"]

\* ------------------------------------------------------------------ sorting
\* Array.prototype.sort with a comparator, Before(a, b) standing for
\* compare(a, b) < 0.  The sort is stable: of two elements neither of which is
\* before the other, the one that came first stays first.
SortBy(array, Before(_, _)) ==
    LET n == Len(array)
        place == [i \in 1..n |-> 1 + Cardinality({j \in 1..n :
                        \/ Before(array[j], array[i])
                        \/ ~Before(array[i], array[j]) /\ j < i})]
    IN [k \in 1..n |-> array[CHOOSE i \in 1..n : place[i] = k]]

\* createGroupToggles marking the hidden groups' buttons active.
createGroupToggles_inverted(groups, hidden) ==
    LET sortedGroups == SortBy(groups, LAMBDA a, b : localeCompare(a.id, b.id) < 0)
    IN [i \in 1..Len(sortedGroups) |->
           [id |-> sortedGroups[i].id, name |-> sortedGroups[i].name,
            active |-> Has(hidden, sortedGroups[i].id)]]

\* script.js:215 and :415 createGroupToggles.
createGroupToggles(groups, hidden) ==
    LET sortedGroups == SortBy(groups, LAMBDA a, b : localeCompare(a.id, b.id) < 0)
    IN [i \in 1..Len(sortedGroups) |->
           [id |-> sortedGroups[i].id, name |-> sortedGroups[i].name,
            active |-> ~Has(hidden, sortedGroups[i].id)]]

\* script.js:232 and :478 createAccountToggles.
createAccountToggles(accounts, selectedAccount) ==
    LET sortedAccounts == SortBy(accounts, LAMBDA a, b : localeCompare(a, b) < 0)
    IN [i \in 1..Len(sortedAccounts) |->
           [username |-> sortedAccounts[i],
            active |-> Some(sortedAccounts[i]) = selectedAccount]]

\* ------------------------------------------------------------------- loader
\* The lookup without its fallback: an id the Map lacks gives undefined.
groupName_noFallback(groupDefinitions, group_id) ==
    LET hits == {i \in 1..Len(groupDefinitions) : groupDefinitions[i].id = group_id}
    IN IF hits = {} THEN "undefined"
       ELSE groupDefinitions[CHOOSE i \in hits : \A j \in hits : j <= i].name

\* script.js:279/285 and :646/650: groupMap.get(post.group_id) || 'Unknown Group'.
\* A Map built from the list keeps the last entry of an id.
groupName(groupDefinitions, group_id) ==
    LET hits == {i \in 1..Len(groupDefinitions) : groupDefinitions[i].id = group_id}
        found == IF hits = {} THEN NULL
                 ELSE Some(groupDefinitions[CHOOSE i \in hits : \A j \in hits : j <= i].name)
    IN IF Truthy(found) THEN Val(found) ELSE "Unknown Group"

\* script.js:286-290 and :653-657: the post with its group_name.
withGroupName(post, groupDefinitions) ==
    [url |-> post.url, username |-> post.username, group_id |-> post.group_id,
     order_id |-> post.order_id, date_posted |-> post.date_posted,
     group_name |-> groupName(groupDefinitions, post.group_id)]

\* How many entries the map callback handles before it throws: reading a
\* property of a null entry is a TypeError.
mappedBeforeThrow(raw) ==
    IF \E i \in 1..Len(raw) : raw[i] = NULL
    THEN (CHOOSE i \in 1..Len(raw) :
            raw[i] = NULL /\ \A j \in 1..(i - 1) : raw[j] # NULL) - 1
    ELSE Len(raw)

\* UNIQUE_ACCOUNTS.add(post.username) for the first k entries.
RECURSIVE addAccounts(_, _, _)
addAccounts(accounts, raw, k) ==
    IF k = 0 THEN accounts
    ELSE SetAdd(addAccounts(accounts, raw, k - 1), Val(raw[k]).username)

\* The argument a missing order_id gives localeCompare: undefined compares as
\* the string "undefined".
orderArg(post) == IF post.order_id = NULL THEN "undefined" ELSE Val(post.order_id)

\* The date key putting the undated posts first.
dateKey_undatedFirst(post) ==
    IF Truthy(post.date_posted) THEN Val(post.date_posted) ELSE "9999-12-31"

\* script.js:295 a.date_posted || '0000-01-01'.
dateKey(post) == IF Truthy(post.date_posted) THEN Val(post.date_posted) ELSE "0000-01-01"

\* script.js:294-304 the comparator of the first revision.
compareByDate(a, b) ==
    IF dateKey(a) # dateKey(b) THEN localeCompare(dateKey(b), dateKey(a))
    ELSE localeCompare(orderArg(a), orderArg(b))

\* a.order_id.localeCompare(...) with a.order_id undefined is a TypeError.
compareByDateThrows(a, b) == dateKey(a) = dateKey(b) /\ a.order_id = NULL

\* script.js:661 the comparator of the second revision.
compareByOrder(a, b) == localeCompare(orderArg(a), orderArg(b))
compareByOrderThrows(a, b) == a.order_id = NULL

\* The sort throws when two elements throw in whichever order the engine hands
\* them to the comparator.  The documents of this model have order_id on every
\* post or on none.  A throwing sort leaves the array as it was.
sortThrows(array, Throws(_, _)) ==
    \E i, j \in 1..Len(array) :
        i # j /\ Throws(array[i], array[j]) /\ Throws(array[j], array[i])

\* The groups facet keeping the groups that have a name.
groupRecords_namedOnly(groupDefinitions) ==
    SelectSeq(groupDefinitions, LAMBDA g : g.name # "")

\* script.js:307 and :664: a Set of fresh {id, name} objects, so no two merge.
groupRecords(groupDefinitions) ==
    [i \in 1..Len(groupDefinitions) |->
        [id |-> groupDefinitions[i].id, name |-> groupDefinitions[i].name]]

orEmpty(o) == IF o = NULL THEN <<>> ELSE Val(o)

\* script.js:274-307 the try block from response.json() on: the globals when
\* it is left, and whether it was left by an exception.
readData(resp, g) ==
    IF ~resp.parses
    THEN [threw |-> TRUE, posts |-> g.posts, accounts |-> g.accounts, groups |-> g.groups]
    ELSE LET groupDefinitions == IF resp.shape = "object" THEN orEmpty(resp.groups) ELSE <<>>
             postDefinitions == IF resp.shape = "object" THEN orEmpty(resp.posts) ELSE <<>>
             k == mappedBeforeThrow(postDefinitions)
             accounts == addAccounts(<<>>, postDefinitions, k)
             mapped == [i \in 1..Len(postDefinitions) |->
                          withGroupName(Val(postDefinitions[i]), groupDefinitions)]
         IN IF k < Len(postDefinitions)
            THEN [threw |-> TRUE, posts |-> g.posts, accounts |-> accounts,
                  groups |-> g.groups]
            ELSE IF sortThrows(mapped, compareByDateThrows)
            THEN [threw |-> TRUE, posts |-> mapped, accounts |-> accounts,
                  groups |-> g.groups]
            ELSE [threw |-> FALSE,
                  posts |-> SortBy(mapped, LAMBDA a, b : compareByDate(a, b) < 0),
                  accounts |-> accounts,
                  groups |-> groupRecords(groupDefinitions)]

\* loadData without the response.ok test.
loadData_noStatusTest(resp, g) == readData(resp, g)

\* script.js:271-313 the try block of loadInstagramFeed (first revision).
loadData(resp, g) ==
    IF resp.status # "200"
    THEN [threw |-> TRUE, posts |-> g.posts, accounts |-> g.accounts, groups |-> g.groups]
    ELSE readData(resp, g)

\* script.js:633-670 the try block of loadInstagramFeed (second revision):
\* UNIQUE_ACCOUNTS is not reset, the sort is by order_id alone.
loadDataB(resp, g) ==
    IF resp.status # "200" \/ ~resp.parses
    THEN [threw |-> TRUE, posts |-> g.posts, accounts |-> g.accounts, groups |-> g.groups]
    ELSE LET groupDefinitions == IF resp.shape = "object" THEN orEmpty(resp.groups) ELSE <<>>
             rawPosts == IF resp.shape = "object" THEN orEmpty(resp.posts) ELSE <<>>
             k == mappedBeforeThrow(rawPosts)
             accounts == addAccounts(g.accounts, rawPosts, k)
             mapped == [i \in 1..Len(rawPosts) |->
                          withGroupName(Val(rawPosts[i]), groupDefinitions)]
         IN IF k < Len(rawPosts)
            THEN [threw |-> TRUE, posts |-> g.posts, accounts |-> accounts,
                  groups |-> g.groups]
            ELSE IF sortThrows(mapped, compareByOrderThrows)
            THEN [threw |-> TRUE, posts |-> mapped, accounts |-> accounts,
                  groups |-> g.groups]
            ELSE [threw |-> FALSE,
                  posts |-> SortBy(mapped, LAMBDA a, b : compareByOrder(a, b) < 0),
                  accounts |-> accounts,
                  groups |-> groupRecords(groupDefinitions)]

\* The render pass drawing the feed before it looks at the selected account.
renderPass_ignoresSelection(v, store, g) ==
    LET loaded == IF v = "script1" THEN loadHiddenGroups(store.groups)
                  ELSE loadHiddenGroupsB(store.groups)
        selectedAccount == loadSelectedAccount(store)
    IN [threw |-> loaded.threw,
        hiddenGroups |-> loaded.set,
        groupButtons |-> createGroupToggles(g.groups, loaded.set),
        accountButtons |-> createAccountToggles(g.accounts, selectedAccount),
        feed |-> applyFiltersAndRender(v, g.posts, loaded.set, NULL),
        posts |-> g.posts, accounts |-> g.accounts, groups |-> g.groups]

\* The render pass keeping the filtered list as the post list
\* (ALL_POST_DATA = ALL_POST_DATA.filter(...)).
renderPass_filtersInPlace(v, store, g) ==
    LET loaded == IF v = "script1" THEN loadHiddenGroups(store.groups)
                  ELSE loadHiddenGroupsB(store.groups)
        selectedAccount == loadSelectedAccount(store)
        shown == applyFiltersAndRender(v, g.posts, loaded.set, selectedAccount)
    IN [threw |-> loaded.threw,
        hiddenGroups |-> loaded.set,
        groupButtons |-> createGroupToggles(g.groups, loaded.set),
        accountButtons |-> createAccountToggles(g.accounts, selectedAccount),
        feed |-> shown,
        posts |-> shown.posts, accounts |-> g.accounts, groups |-> g.groups]

\* script.js:316-326 and :673-685 loadInstagramFeed after the try block, which
\* is all of loadInstagramFeed(false): the controls and the feed drawn from
\* the stored preferences; the globals g are read, not assigned.
renderPass(v, store, g) ==
    LET loaded == IF v = "script1" THEN loadHiddenGroups(store.groups)
                  ELSE loadHiddenGroupsB(store.groups)
        selectedAccount == loadSelectedAccount(store)
    IN [threw |-> loaded.threw,
        hiddenGroups |-> loaded.set,
        groupButtons |-> createGroupToggles(g.groups, loaded.set),
        accountButtons |-> createAccountToggles(g.accounts, selectedAccount),
        feed |-> applyFiltersAndRender(v, g.posts, loaded.set, selectedAccount),
        posts |-> g.posts, accounts |-> g.accounts, groups |-> g.groups]

\* loadInstagramFeed asking for the document at every call, not on the
\* initial load alone.
fetchCalls_everyCall(initializeData, n) == n + 1

\* script.js:270-272 and :631-635 (feed_script.js:214): loadInstagramFeed calls
\* fetch when initializeData is true; n counts the calls so far.
fetchCalls(initializeData, n) == IF initializeData THEN n + 1 ELSE n

\* ------------------------------------------------- multi-select revision
\* part_001:121 loadHiddenAccounts.
loadHiddenAccounts(savedFilters) ==
    IF TruthyText(savedFilters) /\ ~parsedSet(Val(savedFilters)).threw
    THEN parsedSet(Val(savedFilters)).set
    ELSE <<>>

\* part_001:137 saveHiddenAccounts.
saveHiddenAccounts(store, set) == [store EXCEPT !.filters = Some(JSONstringify(set))]

\* part_001:144-159 createAccountToggles: a button is active when its account
\* is not hidden.
createAccountTogglesMulti(accounts, hiddenAccounts) ==
    LET sortedAccounts == SortBy(accounts, LAMBDA a, b : localeCompare(a, b) < 0)
    IN [i \in 1..Len(sortedAccounts) |->
           [username |-> sortedAccounts[i],
            active |-> ~Has(hiddenAccounts, sortedAccounts[i])]]

\* part_001:194-207 the filter and the feed of applyFiltersAndRender.
applyFiltersAndRenderMulti(postData, hidden, hiddenAccounts) ==
    renderInstagramFeed(SelectSeq(postData, LAMBDA post :
        ~Has(hidden, post.group_id) /\ ~Has(hiddenAccounts, post.username)))

\* part_001:327-339 loadInstagramFeed(false): the Sets are read from the
\* store again and the feed is drawn; the buttons are not built again.
rerenderMulti(store, g) ==
    applyFiltersAndRenderMulti(g.posts, loadHiddenGroupsB(store.groups).set,
                               loadHiddenAccounts(store.filters))

\* part_001:327-339 loadInstagramFeed(true) after the try block: the buttons
\* are built, once, and the feed is drawn.
initialPassMulti(store, g) ==
    LET hidden == loadHiddenGroupsB(store.groups).set
        hiddenAccounts == loadHiddenAccounts(store.filters)
    IN [threw |-> FALSE,
        hiddenGroups |-> hidden,
        groupButtons |-> createGroupToggles(g.groups, hidden),
        accountButtons |-> createAccountTogglesMulti(g.accounts, hiddenAccounts),
        feed |-> applyFiltersAndRenderMulti(g.posts, hidden, hiddenAccounts),
        posts |-> g.posts, accounts |-> g.accounts, groups |-> g.groups]

\* ------------------------------------------------------------ legacy loader
\* feed_script.js:44 extractAccountId.
extractAccountId(id) ==
    IF id # "" /\ Len(id) = 6 THEN SubSeq(id, 5, 6) ELSE "00"

RECURSIVE legacyAccounts(_)
legacyAccounts(postData) ==
    IF postData = <<>> THEN <<>>
    ELSE SetAdd(legacyAccounts(SubSeq(postData, 1, Len(postData) - 1)),
                extractAccountId(postData[Len(postData)].id))

\* feed_script.js:129-146 the filter and the feed of applyFiltersAndRender.
legacyRender(postData, hiddenAccounts) ==
    renderInstagramFeed(SelectSeq(postData,
        LAMBDA post : ~Has(hiddenAccounts, extractAccountId(post.id))))

\* feed_script.js:82-101 createFilterToggles: one button per account, in the
\* Set's order.
createFilterToggles(uniqueAccounts, hiddenAccounts) ==
    [i \in 1..Len(uniqueAccounts) |->
        [accountId |-> uniqueAccounts[i],
         active |-> ~Has(hiddenAccounts, uniqueAccounts[i])]]

\* feed_script.js:212-245 the try block of the legacy loadInstagramFeed.  An
\* object has no sort method, so a {groups, posts} document throws.
loadLegacy(resp, store) ==
    IF resp.status # "200" \/ ~resp.parses \/ resp.shape # "array"
    THEN [threw |-> TRUE, postData |-> <<>>, hiddenAccounts |-> <<>>,
          buttons |-> <<>>, feed |-> [kind |-> "error", posts |-> <<>>]]
    ELSE LET postData == SortBy(orEmpty(resp.posts),
                                LAMBDA a, b : localeCompare(a.id, b.id) < 0)
             hiddenAccounts == loadFilterPreferences(store.filters)
         IN [threw |-> FALSE, postData |-> postData,
             hiddenAccounts |-> hiddenAccounts,
             buttons |-> createFilterToggles(legacyAccounts(postData), hiddenAccounts),
             feed |-> legacyRender(postData, hiddenAccounts)]

\* ---------------------------------------------------------------- documents
Variants == {"script1", "script2", "legacy", "multi"}

\* The groups the document declares (the scenario of the specification).
DeclaredGroups == <<[id |-> "0", name |-> "Photo"], [id |-> "1", name |-> "Tech"]>>

\* What varies from post to post; url and order_id follow the position.  An
\* account with posts in both groups, one with posts in one group, and a post
\* whose username is the empty string.
PostKinds == {[username |-> "alice", group_id |-> "0"],
              [username |-> "alice", group_id |-> "1"],
              [username |-> "bob", group_id |-> "1"],
              [username |-> "", group_id |-> "0"]}
\* A post without a username, if there is one, is the document's first.
PostChoices == {f \in UNION {[1..n -> PostKinds] : n \in 0..MaxPosts} :
                  \A i \in 2..Len(f) : f[i].username # ""}

\* "intact": every post has an order_id.  "nullEntry": a null follows the
\* posts.  "noOrderId": no post has an order_id.
DocModes == {"intact", "nullEntry", "noOrderId"}

\* "oneGroup": the document declares group "0" alone, so "1" is an id only
\* posts use.  "emptyName": group "0" is declared with the empty name.
GroupModes == {"oneGroup", "emptyName"}
FewChoices == UNION {[1..n -> {[username |-> "alice", group_id |-> "0"],
                               [username |-> "bob", group_id |-> "1"]}] :
                       n \in 0..(MaxPosts - 1)}
declaredGroups(mode) ==
    IF mode = "oneGroup" THEN <<[id |-> "0", name |-> "Photo"]>>
    ELSE IF mode = "emptyName"
    THEN <<[id |-> "0", name |-> ""], [id |-> "1", name |-> "Tech"]>>
    ELSE DeclaredGroups

\* "dated": the posts carry date_posted, an older and a newer date in turn.
\* "ties": the same, and all the posts have the same order_id.
\* "mixed": only the posts at even places carry date_posted.
DatedModes == {"dated", "ties", "mixed"}
DatedChoices == {[i \in 1..n |-> [username |-> "alice", group_id |-> "0"]] :
                   n \in 0..MaxPosts}

\* order_id descends along the document, so the sort has work to do.
docPost(f, i, mode) ==
    [url |-> "u" \o ToString(i), username |-> f[i].username,
     group_id |-> f[i].group_id,
     order_id |-> IF mode = "noOrderId" THEN NULL
                  ELSE IF mode = "ties" THEN Some("0001")
                  ELSE Some("000" \o ToString(Len(f) + 1 - i)),
     date_posted |-> IF mode \notin DatedModes THEN NULL
                     ELSE IF i % 2 = 1
                     THEN (IF mode = "mixed" THEN NULL ELSE Some("2024-01-05"))
                     ELSE Some("2024-02-07")]

objectDocument(f, mode) ==
    [status |-> "200", parses |-> TRUE, shape |-> "object",
     groups |-> Some(declaredGroups(mode)),
     posts |-> Some([i \in 1..Len(f) |-> Some(docPost(f, i, mode))]
                    \o (IF mode = "nullEntry" THEN <<NULL>> ELSE <<>>))]

LegacyIds == {"000101", "000202", "0003"}
arrayDocument(ids) ==
    [status |-> "200", parses |-> TRUE, shape |-> "array", groups |-> NULL,
     posts |-> Some([i \in 1..Len(ids) |-> [id |-> ids[i], url |-> "u" \o ToString(i)]])]

notFound == [status |-> "404", parses |-> FALSE, shape |-> "none",
             groups |-> NULL, posts |-> NULL]
\* A 404 whose body is JSON all the same, such as {"error": "not found"}.
notFoundJson == [status |-> "404", parses |-> TRUE, shape |-> "object",
                 groups |-> NULL, posts |-> NULL]
notJson == [status |-> "200", parses |-> FALSE, shape |-> "none",
            groups |-> NULL, posts |-> NULL]
emptyObject == [status |-> "200", parses |-> TRUE, shape |-> "object",
                groups |-> NULL, posts |-> NULL]

ObjectDocuments ==
    {objectDocument(f, mode) : f \in PostChoices, mode \in DocModes}
    \cup {objectDocument(f, mode) : f \in DatedChoices, mode \in DatedModes}
    \cup {objectDocument(f, mode) : f \in FewChoices, mode \in GroupModes}
ArrayDocuments == {arrayDocument(ids) :
                     ids \in UNION {[1..n -> LegacyIds] : n \in 0..MaxPosts}}

\* What the server may answer to the page running revision v.
Responses(v) ==
    IF v = "legacy"
    THEN ArrayDocuments \cup {notFound, notJson, objectDocument(<<>>, "intact")}
    ELSE IF v = "multi"
    THEN {objectDocument(f, "intact") : f \in FewChoices} \cup {notFound}
    ELSE ObjectDocuments
         \cup {notFound, notFoundJson, notJson, emptyObject, arrayDocument(<<>>)}

\* What an earlier visit, or somebody else, may have left in localStorage.
StoredThemes == {NULL, Some("light"), Some("dark")}
\* Values no revision writes: an unrecognized string and the empty string.
OddThemes == {Some("blue"), Some("")}
StoredTexts == {NULL, Some(JSONstringify(<<"1">>)), Some(JSONstringify(<<"1", "9">>)),
                Some(<<Tok("bare", "oops")>>)}
\* JSON that is not an array: a string, a number, an object, a boolean, null.
OddTexts == {Some(<<StrLit("1")>>), Some(<<Tok("number", "5")>>),
             Some(<<Tok("{", ""), Tok("}", "")>>), Some(<<Tok("true", "")>>),
             Some(<<Tok("null", "")>>)}
StoredAccounts == {NULL, Some("bob")}
StoredFilters == {NULL, Some(JSONstringify(<<"02">>)), Some(<<Tok("bare", "oops")>>)}

\* The odd values come with the other keys absent.
InitialStorage(v) ==
    IF v = "multi"
    THEN [theme : {NULL}, groups : {NULL, Some(JSONstringify(<<"1">>))},
          account : {NULL}, filters : {NULL, Some(JSONstringify(<<"bob">>))}]
    ELSE
    (IF v = "legacy"
     THEN [theme : StoredThemes, groups : {NULL}, account : {NULL}, filters : StoredFilters]
     ELSE [theme : StoredThemes, groups : StoredTexts, account : StoredAccounts,
           filters : {NULL}])
    \cup [theme : OddThemes, groups : {NULL}, account : {NULL}, filters : {NULL}]
    \cup (IF v = "legacy" THEN {}
          ELSE [theme : {Some("dark")}, groups : OddTexts, account : {NULL},
                filters : {NULL}])

\* Whether embed.js defined window.instgrm.  The page where it did not (the
\* script was blocked) is taken with an empty store.
EmbedScript(store) ==
    IF store = [theme |-> NULL, groups |-> NULL, account |-> NULL, filters |-> NULL]
    THEN BOOLEAN ELSE {TRUE}

\* --------------------------------------------------------------------- Init
Init ==
    /\ variant \in Variants
    /\ pc = "start"
    /\ storage \in InitialStorage(variant)
    /\ isDarkMode = FALSE
    /\ bodyDark = FALSE
    /\ response = NULL
    /\ ALL_POST_DATA = <<>>
    /\ UNIQUE_ACCOUNTS = <<>>
    /\ UNIQUE_GROUPS = <<>>
    /\ hiddenGroups = <<>>
    /\ groupButtons = <<>>
    /\ accountButtons = <<>>
    /\ feed = [kind |-> "initial", posts |-> <<>>]
    /\ savedHidden = NULL
    /\ fetches = 0
    /\ legacy = [postData |-> <<>>, hiddenAccounts |-> <<>>, buttons |-> <<>>]
    /\ embed \in [present : EmbedScript(storage), timer : {FALSE}, process : {"none"}]
    /\ dateTag = [dateString |-> NULL, displayDate |-> NULL]

globals == [posts |-> ALL_POST_DATA, accounts |-> UNIQUE_ACCOUNTS, groups |-> UNIQUE_GROUPS]

\* The page after loadInstagramFeed ran its part below the try block.  An
\* exception there is caught by nobody: the controls and the feed stay.
Rendered(r) ==
    /\ ALL_POST_DATA' = r.posts
    /\ UNIQUE_ACCOUNTS' = r.accounts
    /\ UNIQUE_GROUPS' = r.groups
    /\ IF r.threw
       THEN /\ pc' = "uncaught"
            /\ UNCHANGED <<hiddenGroups, groupButtons, accountButtons, feed, embed>>
       ELSE /\ pc' = "ready"
            /\ hiddenGroups' = r.hiddenGroups
            /\ groupButtons' = r.groupButtons
            /\ accountButtons' = r.accountButtons
            /\ feed' = r.feed
            /\ embed' = embedsAfterRender(variant, embed, r.feed)

\* ------------------------------------------------------------------ actions
\* script.js:330 / :689 / feed_script.js:249 the DOMContentLoaded listener, up
\* to the await of fetch.
DOMContentLoaded ==
    /\ pc = "start"
    /\ LET t == loadTheme(variant, listenerTheme(variant, storage, bodyDark))
       IN /\ storage' = t.store
          /\ isDarkMode' = t.isDarkMode
          /\ bodyDark' = t.bodyDark
    /\ feed' = IF variant \in {"script2", "multi"}
               THEN [kind |-> "loading", posts |-> <<>>] ELSE feed
    /\ fetches' = fetchCalls(TRUE, fetches)
    /\ pc' = "fetching"
    /\ UNCHANGED <<dateTag, variant, response, ALL_POST_DATA, UNIQUE_ACCOUNTS, UNIQUE_GROUPS,
                   hiddenGroups, groupButtons, accountButtons, savedHidden, legacy,
                   embed>>

\* loadInstagramFeed(true) from the answer of fetch to its end.
FetchSettled ==
    /\ pc = "fetching"
    /\ \E resp \in Responses(variant) :
        /\ response' = Some(resp)
        /\ IF variant = "legacy"
           THEN \E r \in {loadLegacy(resp, storage)} :
                   /\ legacy' = [postData |-> r.postData,
                                 hiddenAccounts |-> r.hiddenAccounts,
                                 buttons |-> r.buttons]
                   /\ feed' = r.feed
                   /\ embed' = embedsAfterRender(variant, embed, r.feed)
                   /\ pc' = IF r.threw THEN "error" ELSE "ready"
                   /\ UNCHANGED <<ALL_POST_DATA, UNIQUE_ACCOUNTS, UNIQUE_GROUPS,
                                  hiddenGroups, groupButtons, accountButtons>>
           ELSE \E d \in {IF variant = "script1" THEN loadData(resp, globals)
                          ELSE loadDataB(resp, globals)} :
                   /\ legacy' = IF variant = "multi" /\ ~d.threw
                                THEN [legacy EXCEPT !.hiddenAccounts =
                                         loadHiddenAccounts(storage.filters)]
                                ELSE legacy
                   /\ IF d.threw
                      THEN /\ ALL_POST_DATA' = d.posts
                           /\ UNIQUE_ACCOUNTS' = d.accounts
                           /\ UNIQUE_GROUPS' = d.groups
                           /\ feed' = [kind |-> "error", posts |-> <<>>]
                           /\ pc' = "error"
                           /\ UNCHANGED <<hiddenGroups, groupButtons, accountButtons,
                                          embed>>
                      ELSE IF variant = "multi"
                      THEN \E r \in {initialPassMulti(storage, d)} : Rendered(r)
                      ELSE \E r \in {renderPass(variant, storage, d)} : Rendered(r)
    /\ UNCHANGED <<dateTag, variant, storage, isDarkMode, bodyDark, savedHidden, fetches>>

\* toggleGroupVisibility hiding one group at a time.
toggleGroupVisibility_exclusive(store, groupId) ==
    IF Has(loadHiddenGroups(store.groups).set, groupId) THEN <<>> ELSE <<groupId>>

\* script.js:116 toggleGroupVisibility (button i of the group controls).
toggleGroupVisibility(store, groupId) ==
    LET loaded == loadHiddenGroups(store.groups).set
    IN IF Has(loaded, groupId) THEN SetDelete(loaded, groupId)
       ELSE SetAdd(loaded, groupId)

\* script.js:429-441 the click listener of a group button (second revision):
\* it changes the Set the controls were built from, by the button's class.
groupListener(hidden, button) ==
    IF button.active THEN SetAdd(hidden, button.id) ELSE SetDelete(hidden, button.id)

GroupClick(i) ==
    /\ pc = "ready"
    /\ variant \in {"script1", "script2"}
    /\ i \in 1..Len(groupButtons)
    /\ \E set \in {IF variant = "script1"
                    THEN toggleGroupVisibility(storage, groupButtons[i].id)
                    ELSE groupListener(hiddenGroups, groupButtons[i])} :
       \E store \in {saveHiddenGroups(storage, set)} :
          /\ savedHidden' = Some(set)
          /\ storage' = store
          /\ fetches' = fetchCalls(FALSE, fetches)
          /\ \E r \in {renderPass(variant, store, globals)} : Rendered(r)
    /\ UNCHANGED <<dateTag, variant, isDarkMode, bodyDark, response, legacy>>

\* script.js:133 toggleAccountSelection and :496-514 the click listener of an
\* account button: the username to persist.
toggleAccountSelection(store, username) ==
    IF loadSelectedAccount(store) = Some(username) THEN NULL ELSE Some(username)

AccountClick(i) ==
    /\ pc = "ready"
    /\ variant \in {"script1", "script2"}
    /\ i \in 1..Len(accountButtons)
    /\ \E username \in {toggleAccountSelection(storage, accountButtons[i].username)} :
       \E store \in {saveSelectedAccount(storage, username)} :
          /\ storage' = store
          /\ fetches' = fetchCalls(FALSE, fetches)
          /\ \E r \in {renderPass(variant, store, globals)} : Rendered(r)
    /\ UNCHANGED <<dateTag, variant, isDarkMode, bodyDark, response, savedHidden, legacy>>

\* script.js:56-63 (and :368, feed_script.js:25) the theme toggle's listener.
ThemeClick ==
    /\ pc # "start"
    /\ isDarkMode' = ~isDarkMode
    /\ bodyDark' = ~isDarkMode
    /\ storage' = [storage EXCEPT !.theme = Some(IF ~isDarkMode THEN "dark" ELSE "light")]
    /\ UNCHANGED <<dateTag, variant, pc, response, ALL_POST_DATA, UNIQUE_ACCOUNTS, UNIQUE_GROUPS,
                   hiddenGroups, groupButtons, accountButtons, feed, savedHidden,
                   fetches, legacy, embed>>

\* feed_script.js:103-118 the click listener of a legacy filter button.
LegacyFilterClick(i) ==
    /\ pc = "ready"
    /\ variant = "legacy"
    /\ i \in 1..Len(legacy.buttons)
    /\ LET b == legacy.buttons[i]
           set == IF b.active THEN SetAdd(legacy.hiddenAccounts, b.accountId)
                  ELSE SetDelete(legacy.hiddenAccounts, b.accountId)
       IN /\ storage' = saveFilterPreferences(storage, set)
          /\ legacy' = [legacy EXCEPT !.hiddenAccounts = set,
                                      !.buttons[i].active = ~b.active]
          /\ feed' = legacyRender(legacy.postData, set)
          /\ embed' = embedsAfterRender(variant, embed, feed')
    /\ UNCHANGED <<dateTag, variant, pc, isDarkMode, bodyDark, response, ALL_POST_DATA,
                   UNIQUE_ACCOUNTS, UNIQUE_GROUPS, hiddenGroups, groupButtons,
                   accountButtons, savedHidden, fetches>>

\* part_001:93-108 the click listener of a group button: the Set the buttons
\* were built from and the button's class change, the Set is saved, and
\* loadInstagramFeed(false) draws the feed.
MultiGroupClick(i) ==
    /\ pc = "ready"
    /\ variant = "multi"
    /\ i \in 1..Len(groupButtons)
    /\ \E set \in {groupListener(hiddenGroups, groupButtons[i])} :
       \E store \in {saveHiddenGroups(storage, set)} :
          /\ hiddenGroups' = set
          /\ groupButtons' = [groupButtons EXCEPT ![i].active = ~groupButtons[i].active]
          /\ savedHidden' = Some(set)
          /\ storage' = store
          /\ fetches' = fetchCalls(FALSE, fetches)
          /\ feed' = rerenderMulti(store, globals)
          /\ embed' = embedsAfterRender(variant, embed, feed')
    /\ UNCHANGED <<dateTag, variant, pc, isDarkMode, bodyDark, response, ALL_POST_DATA,
                   UNIQUE_ACCOUNTS, UNIQUE_GROUPS, accountButtons, legacy>>

\* part_001:161-176 the click listener of an account button.
MultiAccountClick(i) ==
    /\ pc = "ready"
    /\ variant = "multi"
    /\ i \in 1..Len(accountButtons)
    /\ \E set \in {IF accountButtons[i].active
                    THEN SetAdd(legacy.hiddenAccounts, accountButtons[i].username)
                    ELSE SetDelete(legacy.hiddenAccounts, accountButtons[i].username)} :
       \E store \in {saveHiddenAccounts(storage, set)} :
          /\ legacy' = [legacy EXCEPT !.hiddenAccounts = set]
          /\ accountButtons' = [accountButtons EXCEPT
                                   ![i].active = ~accountButtons[i].active]
          /\ storage' = store
          /\ fetches' = fetchCalls(FALSE, fetches)
          /\ feed' = rerenderMulti(store, globals)
          /\ embed' = embedsAfterRender(variant, embed, feed')
    /\ UNCHANGED <<dateTag, variant, pc, isDarkMode, bodyDark, response, ALL_POST_DATA,
                   UNIQUE_ACCOUNTS, UNIQUE_GROUPS, hiddenGroups, groupButtons,
                   savedHidden>>

\* script.js:605 the delay of setTimeout has passed.
TimerFires ==
    /\ embed.timer
    /\ embed' = timerCallback(embed)
    /\ UNCHANGED <<dateTag, variant, pc, storage, isDarkMode, bodyDark, response, ALL_POST_DATA,
                   UNIQUE_ACCOUNTS, UNIQUE_GROUPS, hiddenGroups, groupButtons,
                   accountButtons, feed, savedHidden, fetches, legacy>>

Next ==
    \/ DOMContentLoaded
    \/ FetchSettled
    \/ \E i \in 1..Len(groupButtons) : GroupClick(i)
    \/ \E i \in 1..Len(accountButtons) : AccountClick(i)
    \/ ThemeClick
    \/ \E i \in 1..Len(legacy.buttons) : LegacyFilterClick(i)
    \/ \E i \in 1..Len(groupButtons) : MultiGroupClick(i)
    \/ \E i \in 1..Len(accountButtons) : MultiAccountClick(i)
    \/ TimerFires

Spec == Init /\ [][Next]_vars

\* ------------------------------------------------- the date display by itself
\* The fields a date_posted string is joined from.
DateFields == {"", "1", "05", "12", "2024", "20240", "abcd"}

RECURSIVE joinFields(_)
joinFields(fields) ==
    IF Len(fields) = 1 THEN fields[1]
    ELSE fields[1] \o "-" \o joinFields(Tail(fields))

\* date_posted of a post: absent, or a string.
DateStrings ==
    {NULL} \cup {Some(joinFields(fields)) :
                   fields \in UNION {[1..n -> DateFields] : n \in 1..MaxFields}}

\* The script has started and no event has been handled.
DateInit ==
    /\ variant = "script1"
    /\ pc = "start"
    /\ storage = [theme |-> NULL, groups |-> NULL, account |-> NULL, filters |-> NULL]
    /\ isDarkMode = FALSE
    /\ bodyDark = FALSE
    /\ response = NULL
    /\ ALL_POST_DATA = <<>>
    /\ UNIQUE_ACCOUNTS = <<>>
    /\ UNIQUE_GROUPS = <<>>
    /\ hiddenGroups = <<>>
    /\ groupButtons = <<>>
    /\ accountButtons = <<>>
    /\ feed = [kind |-> "initial", posts |-> <<>>]
    /\ savedHidden = NULL
    /\ fetches = 0
    /\ legacy = [postData |-> <<>>, hiddenAccounts |-> <<>>, buttons |-> <<>>]
    /\ embed = [present |-> TRUE, timer |-> FALSE, process |-> "none"]
    /\ dateTag \in [dateString : DateStrings, displayDate : {NULL}]

\* script.js:180 renderInstagramFeed formats a post's date_posted.
FormatDate ==
    /\ dateTag.displayDate = NULL
    /\ dateTag' = [dateTag EXCEPT !.displayDate = Some(formatDisplayDate(dateTag.dateString))]
    /\ UNCHANGED <<variant, pc, storage, isDarkMode, bodyDark, response, ALL_POST_DATA,
                   UNIQUE_ACCOUNTS, UNIQUE_GROUPS, hiddenGroups, groupButtons,
                   accountButtons, feed, savedHidden, fetches, legacy, embed>>

DateNext == FormatDate

DateSpec == DateInit /\ [][DateNext]_vars

\* ------------------------------------------------------------------- claims
\* The page runs script.js and its load and render pass went through.
Loaded == variant \in {"script1", "script2"} /\ pc = "ready"

\* The posts of the post list that belong to account a, in the list's order.
postsOf(a) == SelectSeq(ALL_POST_DATA, LAMBDA post : post.username = a)

\* The posts of the post list whose group is not in the set h, in the list's order.
postsOutside(h) == SelectSeq(ALL_POST_DATA, LAMBDA post : post.group_id \notin h)

\* C1: with a selected account present in storage, the visible list is exactly
\* the posts of that account, whatever the hidden groups are.
C1_SelectionOverridesHiddenGroups ==
    (Loaded /\ storage.account # NULL) => feed.posts = postsOf(Val(storage.account))

\* C2: with no account selected, the visible list is exactly the posts whose
\* group_id is not hidden, in the order of the post list.
C2_HiddenGroupsFilter ==
    (Loaded /\ storage.account = NULL) => feed.posts = postsOutside(AsSet(hiddenGroups))

\* C2 witness: no selection, two posts shown in their order and a third one hidden.
C2_Witness ==
    /\ Loaded /\ storage.account = NULL
    /\ Len(feed.posts) = 2 /\ Len(ALL_POST_DATA) = 3
    /\ feed.posts[1] = ALL_POST_DATA[1] /\ feed.posts[2] = ALL_POST_DATA[3]

\* C3: a click on the control of the selected account clears the selection, a
\* click on the control of any other account B makes the selection exactly B.
C3_AccountToggleSelects ==
    [][\A i \in 1..Len(accountButtons) :
          AccountClick(i) =>
             storage'.account =
                IF storage.account = Some(accountButtons[i].username) THEN NULL
                ELSE Some(accountButtons[i].username)]_vars

\* C4: the set handed to saveHiddenGroups is the set the next loadHiddenGroups
\* returns, the empty set included.
C4_HiddenGroupsRoundTrip ==
    (variant \in {"script1", "script2"} /\ savedHidden # NULL)
        => /\ pc = "ready"
           /\ AsSet(hiddenGroups) = AsSet(Val(savedHidden))
           /\ Len(hiddenGroups) = Len(Val(savedHidden))

\* C4 witness: a set of two ids was saved and loaded again.
C4_Witness ==
    /\ Loaded /\ savedHidden # NULL
    /\ Cardinality(AsSet(Val(savedHidden))) = 2
    /\ AsSet(hiddenGroups) = AsSet(Val(savedHidden))

\* C5: on a first run, with no stored theme, the theme initialization shows
\* dark and stores "dark".
C5_DefaultThemePersisted ==
    [][(pc = "start" /\ pc' = "fetching" /\ storage.theme = NULL)
          => (isDarkMode' /\ bodyDark' /\ storage'.theme = Some("dark"))]_vars

\* The stored hidden-groups value is text that is not JSON.
storedGroupsNotJson ==
    storage.groups # NULL /\ \E i \in 1..Len(Val(storage.groups)) :
                                 Val(storage.groups)[i].t = "bare"

\* C6: when the stored hidden-groups value is not JSON, the load does not
\* raise, yields the empty set, and the page is drawn as if no group were hidden.
C6_MalformedHiddenGroups ==
    (variant \in {"script1", "script2"} /\ pc \in {"ready", "uncaught"}
       /\ storedGroupsNotJson)
        => /\ pc = "ready"
           /\ hiddenGroups = <<>>
           /\ \A i \in 1..Len(groupButtons) : groupButtons[i].active
           /\ feed.posts = IF storage.account = NULL THEN ALL_POST_DATA
                           ELSE postsOf(Val(storage.account))

\* C6 witness: the page is drawn over a stored value that is not JSON, with
\* posts of both groups shown.
C6_Witness ==
    /\ Loaded /\ storedGroupsNotJson /\ storage.account = NULL
    /\ Len(groupButtons) = 2
    /\ \E i, j \in 1..Len(feed.posts) :
          feed.posts[i].group_id = "0" /\ feed.posts[j].group_id = "1"

\* C7: after a non-success status the load is in the error state: no posts, no
\* accounts, no groups, the error message in the feed, no controls.
C7_NotFoundIsError ==
    (variant \in {"script1", "script2"} /\ response # NULL
       /\ Val(response).status # "200")
        => /\ pc = "error"
           /\ feed = [kind |-> "error", posts |-> <<>>]
           /\ ALL_POST_DATA = <<>> /\ UNIQUE_ACCOUNTS = <<>> /\ UNIQUE_GROUPS = <<>>
           /\ groupButtons = <<>> /\ accountButtons = <<>>

\* C7 witness: a 404 whose body is JSON was answered and the error is shown.
C7_Witness ==
    /\ variant = "script1" /\ response = Some(notFoundJson) /\ feed.kind = "error"

\* C8: whenever the error message is shown, the post list, the accounts and
\* the groups are all empty.
C8_ErrorLeavesNothingPopulated ==
    (variant \in {"script1", "script2"} /\ feed.kind = "error")
        => ALL_POST_DATA = <<>> /\ UNIQUE_ACCOUNTS = <<>> /\ UNIQUE_GROUPS = <<>>

\* C10: once the load has completed, no step changes the post list, the
\* accounts or the groups.
C10_LoadedDataIsReadOnly ==
    [][(variant \in {"script1", "script2"} /\ pc \in {"ready", "uncaught"})
          => UNCHANGED <<ALL_POST_DATA, UNIQUE_ACCOUNTS, UNIQUE_GROUPS>>]_vars

\* C10 witness: after a group toggle and an account toggle the feed shows a
\* part of the post list.
C10_Witness ==
    /\ Loaded /\ savedHidden # NULL /\ storage.account # NULL
    /\ feed.kind = "posts" /\ Len(feed.posts) < Len(ALL_POST_DATA)

\* The stored preferences other than key k are the same before and after.
onlyKeyWritten(k) ==
    \A other \in (DOMAIN storage) \ {k} : storage'[other] = storage[other]

\* C11: the document is fetched once, by the initial load; a click on a filter
\* control writes its one preference and redraws from memory without a fetch.
C11_FetchedOnce ==
    [][/\ fetches' # fetches => (pc = "start" /\ fetches = 0 /\ fetches' = 1)
       /\ \A i \in 1..Len(groupButtons) :
             GroupClick(i) => /\ fetches' = fetches /\ response' = response
                              /\ onlyKeyWritten("groups")
                              /\ storage'.groups = Some(JSONstringify(Val(savedHidden')))
       /\ \A i \in 1..Len(accountButtons) :
             AccountClick(i) => /\ fetches' = fetches /\ response' = response
                                /\ onlyKeyWritten("account")
       /\ \A i \in 1..Len(legacy.buttons) :
             LegacyFilterClick(i) => /\ fetches' = fetches /\ response' = response
                                     /\ onlyKeyWritten("filters")]_vars

\* C11 witness: after clicks on a group control and on an account control the
\* document has been fetched once.
C11_Witness ==
    /\ Loaded /\ fetches = 1 /\ savedHidden # NULL /\ storage.account = Some("alice")

\* C12: after an account click persisted absent the read returns absent, after
\* it persisted the string u the read returns u, and persisting the empty
\* string leaves the store different from persisting absent.
C12_SelectedAccountRoundTrip ==
    [][\A i \in 1..Len(accountButtons) :
          AccountClick(i) =>
             LET persisted == toggleAccountSelection(storage, accountButtons[i].username)
             IN /\ loadSelectedAccount(storage') = persisted
                /\ persisted = Some("")
                      => storage' # saveSelectedAccount(storage, NULL)]_vars

\* C13: the theme set up at page start is light when the stored value is
\* exactly "light" and dark for every other stored value and for none.
C13_ThemeRead ==
    [][(pc = "start" /\ pc' = "fetching")
          => /\ isDarkMode' = (storage.theme # Some("light"))
             /\ bodyDark' = isDarkMode']_vars

\* The place of a post of the post list in the document that was served.
docIndex(post) ==
    CHOOSE k \in 1..Len(Val(Val(response).posts)) :
        Val(Val(Val(response).posts)[k]).url = post.url

\* C14: after a successful load the post list holds the posts of the document,
\* newer date_posted first, equal dates by ascending order_id, and posts equal
\* on both in the order of the document.
C14_SortedByDateThenOrder ==
    Loaded =>
        /\ Len(ALL_POST_DATA) = Len(orEmpty(Val(response).posts))
        /\ \A i, j \in 1..Len(ALL_POST_DATA) :
              LET a == ALL_POST_DATA[i]
                  b == ALL_POST_DATA[j]
              IN (i < j /\ (a.date_posted = NULL <=> b.date_posted = NULL)) =>
                    IF a.date_posted # b.date_posted
                    THEN localeCompare(Val(a.date_posted), Val(b.date_posted)) > 0
                    ELSE IF a.order_id # b.order_id
                    THEN localeCompare(Val(a.order_id), Val(b.order_id)) < 0
                    ELSE docIndex(a) < docIndex(b)

\* The groups list and the posts of the document that was served.
servedGroups == orEmpty(Val(response).groups)
servedPosts == orEmpty(Val(response).posts)

\* C15: after a successful load every post whose group_id is the id of a
\* declared group has that group's declared name as group_name, the empty name
\* included.
C15_GroupNameOfDeclaredGroup ==
    Loaded =>
        \A i \in 1..Len(ALL_POST_DATA) : \A k \in 1..Len(servedGroups) :
            servedGroups[k].id = ALL_POST_DATA[i].group_id
                => ALL_POST_DATA[i].group_name = servedGroups[k].name

\* The document that was served is a 200 answer holding an object whose posts
\* are all objects with an order_id.
servedWellFormed ==
    /\ response # NULL
    /\ Val(response).status = "200" /\ Val(response).parses
    /\ Val(response).shape = "object"
    /\ \A k \in 1..Len(servedPosts) :
          servedPosts[k] # NULL /\ Val(servedPosts[k]).order_id # NULL

\* C16: a post whose group_id no declared group has does not fail the load: the
\* load completes, no error message is shown, every post of the document is in
\* the post list, and such a post has the group_name "Unknown Group".
C16_UnknownGroupIsNotAnError ==
    (variant \in {"script1", "script2"} /\ servedWellFormed)
        => /\ pc = "ready" /\ feed.kind # "error"
           /\ \A k \in 1..Len(servedPosts) :
                 \E i \in 1..Len(ALL_POST_DATA) :
                    /\ ALL_POST_DATA[i].url = Val(servedPosts[k]).url
                    /\ (\A g \in 1..Len(servedGroups) :
                           servedGroups[g].id # ALL_POST_DATA[i].group_id)
                         => ALL_POST_DATA[i].group_name = "Unknown Group"

\* C16 witness: the page shows posts, one of them of group "1", which the
\* document does not declare.
C16_Witness ==
    /\ Loaded /\ feed.kind = "posts"
    /\ \A g \in 1..Len(servedGroups) : servedGroups[g].id # "1"
    /\ \E i \in 1..Len(feed.posts) :
          feed.posts[i].group_id = "1" /\ feed.posts[i].group_name = "Unknown Group"

\* C18: after a successful load the groups facet holds one record per entry
\* of the declared groups list and nothing else, each with a filter control,
\* and the accounts facet holds the distinct usernames of the posts.
C18_Facets ==
    Loaded =>
        /\ UNIQUE_GROUPS = [k \in 1..Len(servedGroups) |->
                               [id |-> servedGroups[k].id, name |-> servedGroups[k].name]]
        /\ Len(groupButtons) = Len(servedGroups)
        /\ \A k \in 1..Len(servedGroups) :
              \E b \in 1..Len(groupButtons) :
                 groupButtons[b].id = servedGroups[k].id
                    /\ groupButtons[b].name = servedGroups[k].name
        /\ AsSet(UNIQUE_ACCOUNTS) =
              {Val(servedPosts[k]).username : k \in 1..Len(servedPosts)}
        /\ Len(UNIQUE_ACCOUNTS) = Cardinality(AsSet(UNIQUE_ACCOUNTS))

\* C18 witness: the declared group "0" has no post and an empty name, and two
\* posts of one account are in the list.
C18_Witness ==
    /\ Loaded /\ Len(ALL_POST_DATA) = 2 /\ UNIQUE_ACCOUNTS = <<"bob">>
    /\ \E k \in 1..Len(UNIQUE_GROUPS) :
          UNIQUE_GROUPS[k] = [id |-> "0", name |-> ""]
    /\ \A i \in 1..Len(ALL_POST_DATA) : ALL_POST_DATA[i].group_id = "1"

\* The stored hidden-groups value is absent or is not a JSON array.
storedGroupsNotAnArray ==
    storage.groups = NULL \/ Val(storage.groups)[1] # LBracket

\* C17: whatever is stored under the hidden-groups key that is not an array
\* of strings (nothing, text that is not JSON, a JSON string, number, object,
\* boolean or null), the read raises nothing and returns the empty set.
C17_HiddenGroupsReadIsDefensive ==
    (variant \in {"script1", "script2"} /\ pc \in {"ready", "uncaught"}
       /\ storedGroupsNotAnArray)
        => pc = "ready" /\ hiddenGroups = <<>>

\* C19: an empty result has a state of its own: while the fetch is pending the
\* feed shows neither the no-match message nor the error, a failed load shows
\* the error, and loaded data with nothing visible shows the no-match message,
\* which is shown in no other case.
C19_EmptyResultIsItsOwnState ==
    /\ pc = "fetching" => feed.kind \in {"initial", "loading"}
    /\ pc = "error" => feed.kind = "error"
    /\ pc = "ready" => feed.kind = IF feed.posts = <<>> THEN "nomatch" ELSE "posts"
    /\ feed.kind = "nomatch" => pc = "ready"

\* C19 witness: the second revision, which showed the loading message, loaded
\* posts and the filters leave none visible.
C19_Witness ==
    /\ variant = "script2" /\ pc = "ready" /\ feed.kind = "nomatch"
    /\ Len(ALL_POST_DATA) > 0

\* C20: loadInstagramFeed(true), from its call to its end, leaves the stored
\* theme, hidden groups and selected account as they were when it was called.
C20_LoadLeavesPreferences ==
    [][(variant \in {"script1", "script2"}) =>
          ((DOMContentLoaded
               => storage' = listenerTheme(variant, storage, bodyDark).store)
           /\ (FetchSettled => storage' = storage))]_vars

\* What a read of the store returns now: the hidden groups as the running
\* revision reads them.
readHiddenGroups ==
    IF variant = "script1" THEN loadHiddenGroups(storage.groups).set
    ELSE loadHiddenGroupsB(storage.groups).set

\* C21: once the page is drawn, and after every group or account click, the
\* feed is the filter of the whole post list under the hidden groups and the
\* selected account (the hidden accounts, in the multi-select revision) that
\* the store holds now.
C21_FeedInSyncWithStore ==
    (pc = "ready" /\ variant # "legacy") =>
        feed = IF variant = "multi"
               THEN applyFiltersAndRenderMulti(ALL_POST_DATA, readHiddenGroups,
                                               loadHiddenAccounts(storage.filters))
               ELSE applyFiltersAndRender(variant, ALL_POST_DATA, readHiddenGroups,
                                          loadSelectedAccount(storage))

\* C21 witness: after a group click hid a group and an account click selected
\* alice, the second revision shows a post of alice from the hidden group.
C21_Witness ==
    /\ variant = "script2" /\ pc = "ready"
    /\ savedHidden # NULL /\ storage.account = Some("alice")
    /\ \E i \in 1..Len(feed.posts) : Has(hiddenGroups, feed.posts[i].group_id)

\* The strings of a stored text that is a JSON array.
idsIn(text) == {text[k].v : k \in {n \in 1..Len(text) : text[n].t = "string"}}

\* The store holds a JSON array under the hidden-groups key.
storedGroupsIsArray == storage.groups # NULL /\ Val(storage.groups)[1] = LBracket

\* C22: once the page is drawn, and after every click, a group control is
\* active exactly when its id is not among the hidden groups read from the
\* store, an account control is active exactly when its username is the
\* stored selected account, and no two account controls are active.
C22_ControlsReflectStore ==
    Loaded =>
        /\ storedGroupsIsArray => AsSet(hiddenGroups) = idsIn(Val(storage.groups))
        /\ storage.groups = NULL => hiddenGroups = <<>>
        /\ \A i \in 1..Len(groupButtons) :
              groupButtons[i].active <=> groupButtons[i].id \notin AsSet(hiddenGroups)
        /\ \A i \in 1..Len(accountButtons) :
              accountButtons[i].active
                 <=> storage.account = Some(accountButtons[i].username)
        /\ \A i, j \in 1..Len(accountButtons) :
              (accountButtons[i].active /\ accountButtons[j].active) => i = j

\* C22 witness: a hidden and a visible group, and one of two account controls
\* active after a click.
C22_Witness ==
    /\ Loaded /\ savedHidden # NULL /\ Len(accountButtons) = 2
    /\ \E i, j \in 1..Len(groupButtons) :
          groupButtons[i].active /\ ~groupButtons[j].active
    /\ \E i \in 1..Len(accountButtons) :
          accountButtons[i].active /\ accountButtons[i].username = "alice"

\* C23: a click on the control of group g flips g in the hidden groups and
\* leaves every other id, declared or not, as it was; the flipped set is what
\* the store then holds.  (Two clicks on g therefore give the first set back.)
C23_GroupToggleFlipsOneId ==
    [][\A i \in 1..Len(groupButtons) :
          GroupClick(i) =>
             LET g == groupButtons[i].id
                 before == AsSet(hiddenGroups)
             IN /\ AsSet(hiddenGroups') = (before \ {g}) \cup ({g} \ before)
                /\ storage'.groups = Some(JSONstringify(hiddenGroups'))
                /\ idsIn(Val(storage'.groups)) = AsSet(hiddenGroups')
                /\ storedGroupsIsArray => before = idsIn(Val(storage.groups))]_vars

\* C23 witness: from the stored ["1","9"], group 1 was shown and hidden again;
\* the undeclared id 9 stayed.
C23_Witness ==
    /\ Loaded /\ savedHidden = Some(<<"9", "1">>) /\ hiddenGroups = <<"9", "1">>

\* C24: an account click changes neither the stored hidden groups nor the
\* theme, a group click neither the selected account nor the theme, a theme
\* click neither of the two filters; hidden groups kept through a selection
\* filter the feed again when the selection is cleared.
C24_PreferencesAreIndependent ==
    [][/\ \A i \in 1..Len(accountButtons) :
             AccountClick(i) =>
                /\ onlyKeyWritten("account") /\ hiddenGroups' = hiddenGroups
                /\ isDarkMode' = isDarkMode /\ bodyDark' = bodyDark
                /\ storage'.account = NULL =>
                      feed'.posts = SelectSeq(ALL_POST_DATA', LAMBDA post :
                                        post.group_id \notin AsSet(hiddenGroups))
       /\ \A i \in 1..Len(groupButtons) :
             GroupClick(i) => /\ onlyKeyWritten("groups")
                              /\ isDarkMode' = isDarkMode /\ bodyDark' = bodyDark
       /\ ThemeClick => /\ onlyKeyWritten("theme")
                        /\ hiddenGroups' = hiddenGroups /\ feed' = feed]_vars

\* C24 witness: an account was selected by a click while a group is hidden.
C24_Witness ==
    /\ Loaded /\ storage.account = Some("alice") /\ hiddenGroups = <<"1">>
    /\ storage.groups = Some(JSONstringify(<<"1">>))

staleSelection ==
    /\ Loaded /\ storage.account # NULL
    /\ \A i \in 1..Len(accountButtons) :
          accountButtons[i].username # Val(storage.account)

\* C28: with a stored selected account that no loaded post carries, the feed
\* shows the empty-result state and no account control is active, and one
\* click on any account control stores that control's account instead.
C28_StaleSelectionIsReplaced ==
    /\ [](staleSelection =>
            /\ feed.kind = "nomatch"
            /\ \A i \in 1..Len(accountButtons) : ~accountButtons[i].active)
    /\ [][\A i \in 1..Len(accountButtons) :
            (staleSelection /\ AccountClick(i)) =>
                storage'.account = Some(accountButtons[i].username)]_vars

\* C29: after a load by the first revision's sort, no post without
\* date_posted stands before a post with one, and the posts without
\* date_posted stand in ascending order_id.
C29_UndatedPostsLast ==
    (Loaded /\ variant = "script1") =>
        \A i, j \in 1..Len(ALL_POST_DATA) :
            LET a == ALL_POST_DATA[i]
                b == ALL_POST_DATA[j]
            IN (i < j /\ a.date_posted = NULL) =>
                  /\ b.date_posted = NULL
                  /\ (a.order_id # NULL /\ b.order_id # NULL) =>
                        localeCompare(Val(a.order_id), Val(b.order_id)) <= 0

\* C29 witness: the document had undated, dated, undated; the dated post now
\* leads and the two undated posts changed places.
C29_Witness ==
    /\ Loaded /\ variant = "script1" /\ Len(ALL_POST_DATA) = 3
    /\ ALL_POST_DATA[1].date_posted # NULL /\ ALL_POST_DATA[1].url = "u2"
    /\ ALL_POST_DATA[2].date_posted = NULL /\ ALL_POST_DATA[2].url = "u3"
    /\ ALL_POST_DATA[3].date_posted = NULL /\ ALL_POST_DATA[3].url = "u1"

\* A step in which a render pass filled the feed container with post blocks.
postsInserted ==
    /\ ~ThemeClick /\ ~TimerFires /\ ~DOMContentLoaded
    /\ pc' = "ready" /\ feed'.kind = "posts"

\* C26: Embeds.process() is called only where window.instgrm exists; a render
\* pass that inserts post blocks does not call it itself but leaves the call
\* to a timer, whose callback makes it once the delay has passed; without
\* window.instgrm the pass draws the posts all the same and nothing is called.
C26_EmbedsProcessedAfterDelay ==
    /\ [](embed.process # "none" => embed.present)
    /\ [][postsInserted =>
            /\ embed'.process = "none"
            /\ embed.present => embed'.timer]_vars
    /\ [][TimerFires =>
            embed'.process = (IF embed.present THEN "afterDelay" ELSE "none")]_vars

\* The digits.
Digits == {"0", "1", "2", "3", "4", "5", "6", "7", "8", "9"}

\* str has the form YYYY-MM-DD.
isIsoDate(str) ==
    /\ Len(str) = 10
    /\ \A i \in 1..10 : IF i \in {5, 8} THEN SubSeq(str, i, i) = "-"
                        ELSE SubSeq(str, i, i) \in Digits

\* C27: the date displayed for YYYY-MM-DD is MM/DD/YYYY with the same fields,
\* and for everything else, absent, of another length or of another form, it
\* is "Date N/A".
C27_DateDisplay ==
    dateTag.displayDate # NULL =>
        Val(dateTag.displayDate) =
            IF dateTag.dateString # NULL /\ isIsoDate(Val(dateTag.dateString))
            THEN LET str == Val(dateTag.dateString)
                 IN SubSeq(str, 6, 7) \o "/" \o SubSeq(str, 9, 10) \o "/"
                       \o SubSeq(str, 1, 4)
            ELSE "Date N/A"

====
